---- MODULE Spec2Model ----
(***************************************************************************)
(* Model of the cache service of the BiteBase backend                      *)
(* (src/app/core/cache.py): the Cache store with its two backends (the     *)
(* networked Redis client and the in-process dict) and the `cached`        *)
(* memoization decorator.                                                  *)
(*                                                                         *)
(* Python values are records tagged with their type.  Strings are          *)
(* sequences of one-character strings, so that prefixes, joins and         *)
(* separators behave as they do in the code.  Time is counted in whole     *)
(* seconds.                                                                *)
(***************************************************************************)
EXTENDS Integers, Sequences, FiniteSets, TLC

(***************************************************************************)
(* Bounds of the model.                                                    *)
(***************************************************************************)
\* The clock runs from 1 to MaxTime.
MaxTime == 4
\* The wrapped computation is run at most MaxRuns times.
MaxRuns == 2
\* The limiter's rate_limit and window_size, scaled down from the 100
\* requests per 60 seconds main.py configures.
RateLimit == 2
WindowSize == 2
\* The longest the report list grows.
MaxReports == 5

(***************************************************************************)
(* Python values.                                                          *)
(***************************************************************************)
None == [t |-> "none"]
PyBool(b) == [t |-> "bool", v |-> b]
PyInt(n) == [t |-> "int", v |-> n]
PyStr(s) == [t |-> "str", v |-> s]
PyList(xs) == [t |-> "list", v |-> xs]
PyTuple(xs) == [t |-> "tuple", v |-> xs]
\* A dict is the sequence of its (key, value) items.
PyDict(items) == [t |-> "dict", v |-> items]
\* An object with a __dict__: d stands for what the __dict__ holds, request
\* for whether the object has the attributes `method` and `url`.
PyObject(d, request) == [t |-> "object", v |-> d, request |-> request]
PyTrue == PyBool(TRUE)
PyFalse == PyBool(FALSE)

\* bool(x) / the truth value `if x:` tests.
Truthy(x) ==
    CASE x.t = "none" -> FALSE
      [] x.t = "bool" -> x.v
      [] x.t = "int" -> x.v # 0
      [] OTHER -> Len(x.v) > 0

\* str(x) for the scalars used as arguments and keys.
DigitStr(n) == <<ToString(n)>>
PyStrOf(x) ==
    CASE x.t = "str" -> x.v
      [] x.t = "int" -> DigitStr(x.v)
      [] x.t = "none" -> <<"N", "o", "n", "e">>
      [] x.t = "bool" -> IF x.v THEN <<"T", "r", "u", "e">>
                                ELSE <<"F", "a", "l", "s", "e">>

\* s.startswith(prefix)
StartsWith(s, prefix) ==
    /\ Len(prefix) <= Len(s)
    /\ SubSeq(s, 1, Len(prefix)) = prefix

(***************************************************************************)
(* Key namespacing.                                                        *)
(***************************************************************************)
DefaultNamespace == <<"b", "i", "t", "e", "b", "a", "s", "e">>

\* os.getenv(name, default): the variable's value, or the default when unset.
Getenv(val, default) == IF val = None THEN default ELSE val.v

\* Cache._generate_key
GenerateKey(env, key) == Getenv(env, DefaultNamespace) \o <<":">> \o key

(***************************************************************************)
(* JSON serialization.  A JSON text is the sequence of its tokens.         *)
(***************************************************************************)
Quoted(s) == <<"\"">> \o s \o <<"\"">>

\* json.dumps of a scalar.
DumpScalar(x) ==
    CASE x.t = "none" -> <<"null">>
      [] x.t = "bool" -> IF x.v THEN <<"true">> ELSE <<"false">>
      [] x.t = "int" -> DigitStr(x.v)
      [] x.t = "str" -> Quoted(x.v)

\* json.dumps of a dict key: keys are always written as strings.
DumpKey(k) == Quoted(PyStrOf(k))

\* json.dumps of the elements of a list or tuple.
RECURSIVE DumpElems(_)
DumpElems(xs) ==
    IF Len(xs) = 0 THEN <<>>
    ELSE DumpScalar(Head(xs))
         \o (IF Len(xs) > 1 THEN <<",">> ELSE <<>>)
         \o DumpElems(Tail(xs))

\* json.dumps of the items of a dict.
RECURSIVE DumpItems(_)
DumpItems(items) ==
    IF Len(items) = 0 THEN <<>>
    ELSE DumpKey(Head(items)[1]) \o <<":">> \o DumpScalar(Head(items)[2])
         \o (IF Len(items) > 1 THEN <<",">> ELSE <<>>)
         \o DumpItems(Tail(items))

\* The exception marker of a call that raised.
Raise == [t |-> "raise"]

\* json.dumps accepts str, int, float, bool and None as dict keys; any other
\* key is a TypeError (the `default` hook is not asked about keys).
KeysDumpable(x) ==
    x.t = "dict" =>
        \A i \in 1..Len(x.v) : x.v[i][1].t \in {"none", "bool", "int", "str"}

\* Cache._serialize
Serialize(x) ==
    IF ~KeysDumpable(x) THEN Raise
    ELSE CASE x.t \in {"none", "bool", "int", "str"} -> DumpScalar(x)
           [] x.t \in {"list", "tuple"} ->
                <<"[">> \o DumpElems(x.v) \o <<"]">>
           [] x.t = "dict" -> <<"{">> \o DumpItems(x.v) \o <<"}">>

\* The values json.loads can return here: null, numbers, strings, lists
\* and dicts with string keys.
JsonNative ==
    { None, PyInt(0), PyInt(1), PyInt(2), PyInt(3), PyInt(4),
      PyStr(<<"a">>), PyStr(<<>>),
      PyList(<<PyInt(1)>>),
      PyDict(<<<<PyStr(<<"1">>), PyStr(<<"a">>)>>>>) }

\* json.loads: the value whose JSON text is s; JSONDecodeError otherwise.
JsonLoads(s) ==
    IF \E x \in JsonNative : Serialize(x) = s
    THEN CHOOSE x \in JsonNative : Serialize(x) = s
    ELSE Raise

DeserializeKeepsText(s) == PyStr(s)

\* Cache._deserialize
Deserialize(s) == IF Len(s) = 0 THEN None ELSE JsonLoads(s)

(***************************************************************************)
(* State.                                                                  *)
(***************************************************************************)
VARIABLES
    initialized,      \* Cache.initialized
    redis_client,     \* TRUE iff Cache.redis_client is a connected client
    in_memory_cache,  \* Cache.in_memory_cache: stored key -> entry
    redis_db,         \* the Redis server's keys: stored key -> [data, exp]
    now,              \* time.time()
    env_namespace,    \* the CACHE_NAMESPACE environment variable (None: unset)
    last,             \* the call that has just returned
    last_set          \* stored key -> the set that wrote it last (history)

store_vars == <<initialized, redis_client, in_memory_cache, redis_db, now,
                env_namespace, last, last_set>>

\* The function f without the keys of ks.
Without(f, ks) == [k \in DOMAIN f \ ks |-> f[k]]
\* The function f with key k bound to x.
With(f, k, x) == [j \in DOMAIN f \cup {k} |-> IF j = k THEN x ELSE f[j]]
EmptyMap == [k \in {} |-> None]
\* The entry a store holds under ck, or None.
Held(f, ck) == IF ck \in DOMAIN f THEN f[ck] ELSE None

(***************************************************************************)
(* The Redis server, as the client calls of cache.py see it.               *)
(***************************************************************************)
\* A key lives until its expiry time is reached.
RedisLive(e, t) == e.exp = None \/ t < e.exp.v
\* The server drops the keys whose time has come.
RedisPurge(db, t) == Without(db, {k \in DOMAIN db : ~RedisLive(db[k], t)})

\* redis_client.get(cache_key): the stored bytes, or None.
RedisGet(db, ck) ==
    IF ck \in DOMAIN db THEN [t |-> "bytes", v |-> db[ck].data] ELSE None

\* KEYS pattern matching: * matches any run of characters, ? any one.
RECURSIVE GlobMatch(_, _)
GlobMatch(p, s) ==
    IF Len(p) = 0 THEN Len(s) = 0
    ELSE IF Head(p) = "*"
         THEN GlobMatch(Tail(p), s) \/ (Len(s) > 0 /\ GlobMatch(p, Tail(s)))
         ELSE /\ Len(s) > 0
              /\ (Head(p) = "?" \/ Head(p) = Head(s))
              /\ GlobMatch(Tail(p), Tail(s))

\* redis_client.keys(pattern)
RedisKeys(db, pattern) == {k \in DOMAIN db : GlobMatch(pattern, k)}

(***************************************************************************)
(* Cache.initialize                                                        *)
(***************************************************************************)
\* probe = <<REDIS_AVAILABLE, REDIS_URL is set, from_url and ping succeed>>
Probes == BOOLEAN \X BOOLEAN \X BOOLEAN

InitializeNoFallback(init, client, probe) ==
    IF init THEN [initialized |-> init, redis_client |-> client]
    ELSE IF probe[1] /\ probe[2] /\ probe[3]
         THEN [initialized |-> TRUE, redis_client |-> TRUE]
         ELSE [initialized |-> FALSE, redis_client |-> FALSE]

InitializeReprobe(init, client, probe) ==
    [initialized |-> TRUE, redis_client |-> probe[1] /\ probe[2] /\ probe[3]]

Initialize(init, client, probe) ==
    IF init THEN [initialized |-> init, redis_client |-> client]
    ELSE IF probe[1] /\ probe[2] /\ probe[3]
         THEN [initialized |-> TRUE, redis_client |-> TRUE]
         ELSE [initialized |-> TRUE, redis_client |-> FALSE]

(***************************************************************************)
(* Cache.get                                                               *)
(***************************************************************************)
IsExpiredReversed(entry, t) ==
    Truthy(entry.expires_at) /\ entry.expires_at.v > t

\* entry["expires_at"] and entry["expires_at"] < time.time()
IsExpired(entry, t) == Truthy(entry.expires_at) /\ entry.expires_at.v < t

GetExceptReraise == [ret |-> Raise, raised |-> TRUE]

\* except Exception: log_error(...), then `return None`
GetExcept == [ret |-> None, raised |-> FALSE]

\* The in-process branch of Cache.get.
MemGetKeepsExpired(mem, ck, t) ==
    IF ck \in DOMAIN mem /\ ~IsExpired(mem[ck], t)
    THEN [ret |-> mem[ck].value, raised |-> FALSE, mem |-> mem]
    ELSE [ret |-> None, raised |-> FALSE, mem |-> mem]

MemGet(mem, ck, t) ==
    IF ck \in DOMAIN mem
    THEN IF IsExpired(mem[ck], t)
         THEN [ret |-> None, raised |-> FALSE, mem |-> Without(mem, {ck})]
         ELSE [ret |-> mem[ck].value, raised |-> FALSE, mem |-> mem]
    ELSE [ret |-> None, raised |-> FALSE, mem |-> mem]

\* The Redis branch of Cache.get; fault: the client call raises.
RedisCacheGet(db, ck, fault) ==
    IF fault THEN GetExcept
    ELSE LET value == RedisGet(db, ck)
         IN IF Truthy(value)
            THEN IF Deserialize(value.v) = Raise
                 THEN GetExcept
                 ELSE [ret |-> Deserialize(value.v), raised |-> FALSE]
            ELSE [ret |-> None, raised |-> FALSE]

CacheGet(client, mem, db, env, key, t, fault) ==
    LET ck == GenerateKey(env, key)
    IN IF client
       THEN LET r == RedisCacheGet(db, ck, fault)
            IN [ret |-> r.ret, raised |-> r.raised, mem |-> mem]
       ELSE MemGet(mem, ck, t)

(***************************************************************************)
(* Cache.set                                                               *)
(***************************************************************************)
SetExceptReraise == [ret |-> Raise, raised |-> TRUE]

\* except Exception: log_error(...); return False
SetExcept == [ret |-> PyFalse, raised |-> FALSE]

ExpiresAtNoneAsZero(ttl, t) ==
    IF ttl = None THEN PyInt(t) ELSE PyInt(t + ttl.v)

\* expires_at = time.time() + ttl if ttl else None
ExpiresAt(ttl, t) == IF Truthy(ttl) THEN PyInt(t + ttl.v) ELSE None

\* the `return True` of the in-process branch
SetDone == PyTrue

CacheSetKeepsFirst(client, mem, db, env, key, value, ttl, t, fault) ==
    LET ck == GenerateKey(env, key)
        kept == IF client THEN ck \in DOMAIN db ELSE ck \in DOMAIN mem
    IN [ret |-> PyTrue, raised |-> FALSE,
        mem |-> IF client \/ kept THEN mem
                ELSE With(mem, ck, [value |-> value,
                                    expires_at |-> ExpiresAt(ttl, t)]),
        db |-> IF ~client \/ kept THEN db
               ELSE With(db, ck, [data |-> Serialize(value),
                                  exp |-> ExpiresAt(ttl, t)]),
        applied |-> TRUE]

\* Cache.set: the result and the two stores afterwards.
CacheSet(client, mem, db, env, key, value, ttl, t, fault) ==
    LET ck == GenerateKey(env, key)
    IN IF client
       THEN IF fault \/ ~KeysDumpable(value)
            THEN [ret |-> SetExcept.ret, raised |-> SetExcept.raised,
                  mem |-> mem, db |-> db, applied |-> FALSE]
            ELSE [ret |-> PyBool(TRUE), raised |-> FALSE, mem |-> mem,
                  db |-> With(db, ck, [data |-> Serialize(value),
                                       exp |-> ExpiresAt(ttl, t)]),
                  applied |-> TRUE]
       ELSE [ret |-> SetDone, raised |-> FALSE,
             mem |-> With(mem, ck, [value |-> value,
                                    expires_at |-> ExpiresAt(ttl, t)]),
             db |-> db, applied |-> TRUE]

(***************************************************************************)
(* Cache.delete                                                            *)
(***************************************************************************)
\* except Exception: log_error(...), then `return False`
DeleteExcept == [ret |-> PyFalse, raised |-> FALSE]

DeleteKeepsKey(f, ck) == f

\* del self.in_memory_cache[cache_key] / the server's DEL
DeleteKey(f, ck) == Without(f, {ck})

CacheDelete(client, mem, db, env, key, fault) ==
    LET ck == GenerateKey(env, key)
    IN IF client
       THEN IF fault
            THEN [ret |-> DeleteExcept.ret, raised |-> DeleteExcept.raised,
                  mem |-> mem, db |-> db]
            ELSE [ret |-> PyBool(ck \in DOMAIN db), raised |-> FALSE,
                  mem |-> mem, db |-> DeleteKey(db, ck)]
       ELSE IF ck \in DOMAIN mem
            THEN [ret |-> PyTrue, raised |-> FALSE,
                  mem |-> DeleteKey(mem, ck), db |-> db]
            ELSE [ret |-> PyFalse, raised |-> FALSE, mem |-> mem, db |-> db]

(***************************************************************************)
(* Cache.clear                                                             *)
(***************************************************************************)
\* except Exception: log_error(...); return False
ClearExcept == [ret |-> PyFalse, raised |-> FALSE]

\* keys_to_delete = [k for k in ... if k.startswith(f"{namespace}:")]
KeysToDelete(mem, namespace) ==
    {k \in DOMAIN mem : StartsWith(k, namespace.v \o <<":">>)}

CacheClear(client, mem, db, namespace, fault) ==
    IF client
    THEN IF fault
         THEN [ret |-> ClearExcept.ret, raised |-> ClearExcept.raised,
               mem |-> mem, db |-> db]
         ELSE IF Truthy(namespace)
              THEN LET keys == RedisKeys(db, namespace.v \o <<":", "*">>)
                   IN IF keys # {}
                      THEN [ret |-> PyBool(Cardinality(keys) > 0),
                            raised |-> FALSE, mem |-> mem,
                            db |-> Without(db, keys)]
                      \* no return statement is reached: the call yields None
                      ELSE [ret |-> None, raised |-> FALSE,
                            mem |-> mem, db |-> db]
              ELSE [ret |-> PyTrue, raised |-> FALSE,
                    mem |-> mem, db |-> EmptyMap]
    ELSE IF Truthy(namespace)
         THEN [ret |-> PyTrue, raised |-> FALSE,
               mem |-> Without(mem, KeysToDelete(mem, namespace)), db |-> db]
         ELSE [ret |-> PyTrue, raised |-> FALSE, mem |-> EmptyMap, db |-> db]

(***************************************************************************)
(* The `cached` decorator: key derivation.                                 *)
(***************************************************************************)
\* A call's arguments: [args |-> <<values>>, kwargs |-> <<<<name, value>>>>],
\* the keyword arguments in the order the caller wrote them.
Call(args, kwargs) == [args |-> args, kwargs |-> kwargs]

\* Character order, for sorting keyword names.
Alphabet == <<"1", "2", ":", "a", "b", "f", "g", "k", "x", "y">>
CharRank(c) == CHOOSE i \in 1..Len(Alphabet) : Alphabet[i] = c

RECURSIVE StrLess(_, _)
StrLess(s, u) ==
    IF Len(u) = 0 THEN FALSE
    ELSE IF Len(s) = 0 THEN TRUE
    ELSE IF Head(s) = Head(u) THEN StrLess(Tail(s), Tail(u))
    ELSE CharRank(Head(s)) < CharRank(Head(u))

UnsortedItems(items) == items

\* sorted(kwargs.items()): by keyword name (names are distinct).
RECURSIVE SortedItems(_)
SortedItems(items) ==
    IF Len(items) = 0 THEN <<>>
    ELSE LET least == CHOOSE i \in 1..Len(items) :
                        \A j \in 1..Len(items) :
                            j = i \/ StrLess(items[i][1], items[j][1])
             rest == [j \in 1..(Len(items) - 1) |->
                        IF j < least THEN items[j] ELSE items[j + 1]]
         IN <<items[least]>> \o SortedItems(rest)

\* hasattr(arg, "__dict__")
HasDict(x) == x.t = "object"

\* hasattr(arg, "method") and hasattr(arg, "url")
IsRequest(x) == x.request

\* str(hash(frozenset(x.__dict__.items()))): a number that is the same for
\* equal contents and, but for a hash collision, differs for different
\* contents; it is written "#" followed by the contents' number.
DictHash(x) == <<"#", ToString(x.v)>>

\* The part a positional argument adds: none for a request object, the
\* hash of its __dict__ for another object, str(arg) otherwise.
ArgPart(arg) ==
    IF HasDict(arg)
    THEN IF IsRequest(arg) THEN <<>> ELSE <<DictHash(arg)>>
    ELSE <<PyStrOf(arg)>>

\* the loop over args
RECURSIVE ArgParts(_)
ArgParts(args) ==
    IF Len(args) = 0 THEN <<>>
    ELSE ArgPart(Head(args)) \o ArgParts(Tail(args))

\* The part a keyword argument adds: f"{k}:{hash}" for any object with a
\* __dict__, f"{k}:{v}" otherwise.
KwargPart(k, v) ==
    k \o <<":">> \o (IF HasDict(v) THEN DictHash(v) ELSE PyStrOf(v))

\* the loop over sorted(kwargs.items())
RECURSIVE KwargParts(_)
KwargParts(items) ==
    IF Len(items) = 0 THEN <<>>
    ELSE <<KwargPart(Head(items)[1], Head(items)[2])>>
         \o KwargParts(Tail(items))

\* ":".join(parts)
RECURSIVE Join(_)
Join(parts) ==
    IF Len(parts) = 0 THEN <<>>
    ELSE IF Len(parts) = 1 THEN Head(parts)
    ELSE Head(parts) \o <<":">> \o Join(Tail(parts))

\* hashlib.md5(s.encode()).hexdigest(), on the key material of the model;
\* a digest is one token.
MD5(s) ==
    CASE s = <<"f", ":", "1">> -> <<"537fd087393fd594e0dbc18f60b3e499">>
      [] s = <<"f", ":", "2">> -> <<"3cb666f4b6c69b3baa7e01b4fc0fc9cc">>
      [] s = <<"f", ":", "a", ":", "b">> -> <<"9d8c1efaacd891b1d621d1732234a917">>
      [] s = <<"f", ":", "x", ":", "1">> -> <<"a359c5a8bc36fda13b9f16abe08f2322">>
      [] s = <<"g", ":", "1">> -> <<"bc5271dc273219e0e5d5a4b5c51500e7">>
      [] s = <<"f">> -> <<"8fa14cdd754f91cc6554c9e71929cce7">>
      [] s = <<"f", ":", "x", ":", "1", ":", "y", ":", "2">> ->
           <<"9e366c9141d927511038f23cc99ced6b">>
      [] s = <<"f", ":", "y", ":", "2", ":", "x", ":", "1">> ->
           <<"93dea1ec27cd79eb174fd4569dcc5f50">>
      \* key material holding the hash of a __dict__: the digest is named by
      \* the material (no collisions)
      [] OTHER -> <<"md5">> \o s

\* key_parts = [key_prefix or func.__name__]
KeyHead(key_prefix, func_name) ==
    IF Len(key_prefix) > 0 THEN key_prefix ELSE func_name

\* The store key the wrapper derives for a call.
MemoKey(key_prefix, func_name, c) ==
    MD5(Join(<<KeyHead(key_prefix, func_name)>>
             \o ArgParts(c.args)
             \o KwargParts(SortedItems(c.kwargs))))

(***************************************************************************)
(* Authentication: get_token_from_header, validate_token and               *)
(* get_authorized_user.                                                    *)
(***************************************************************************)
\* str.lower on the letters of the headers used here.
LowerChar(c) ==
    CASE c = "A" -> "a" [] c = "B" -> "b" [] c = "C" -> "c"
      [] c = "E" -> "e" [] c = "I" -> "i" [] c = "R" -> "r"
      [] c = "S" -> "s" [] OTHER -> c
Lower(s) == [i \in 1..Len(s) |-> LowerChar(s[i])]

\* str.split(): the words between runs of whitespace.
RECURSIVE SplitFrom(_, _)
SplitFrom(s, word) ==
    LET done == IF Len(word) > 0 THEN <<word>> ELSE <<>>
    IN IF Len(s) = 0 THEN done
       ELSE IF Head(s) = " " THEN done \o SplitFrom(Tail(s), <<>>)
       ELSE SplitFrom(Tail(s), Append(word, Head(s)))
Split(s) == SplitFrom(s, <<>>)

BearerWord == <<"b", "e", "a", "r", "e", "r">>

\* get_token_from_header; header is request.headers.get(header_name).
GetTokenFromHeader(header) ==
    IF ~Truthy(header) THEN None
    ELSE LET parts == Split(header.v)
         IN IF Len(parts) # 2 \/ Lower(parts[1]) # BearerWord THEN None
            ELSE PyStr(parts[2])

\* user.sub of the anonymous user
AnonymousSub == <<"a", "n", "o", "n", "y", "m", "o", "u", "s">>

\* User(sub=...) with the model's defaults for the other fields.
User(sub, user_id, name, email, picture) ==
    [sub |-> sub, user_id |-> user_id, name |-> name, email |-> email,
     picture |-> picture]
Anonymous == User(PyStr(AnonymousSub), None, PyStr(<<>>), PyStr(<<>>), None)

\* What the issuer signed into the tokens of the model: "t" names the user
\* u, "n" carries no sub claim; "x" has a bad signature, "e" has expired.
Payload(token) ==
    IF token = <<"t">>
    THEN [sub |-> PyStr(<<"u">>), user_id |-> PyStr(<<"u">>)]
    ELSE [user_id |-> PyStr(<<"n">>)]

\* payload.get(name, default)
PayloadGet(payload, name, default) ==
    IF name \in DOMAIN payload THEN payload[name] ELSE default

\* raise JWTError(...)
JWTError == [raised |-> TRUE, payload |-> None]

\* validate_token: every failure of the JWKS client or of jwt.decode, and an
\* expired token, ends as a JWTError.
ValidateToken(token, jwt_available, jwks_up) ==
    IF ~jwt_available THEN JWTError
    ELSE IF ~jwks_up THEN JWTError
    ELSE IF token \notin { <<"t">>, <<"n">> } THEN JWTError
    ELSE [raised |-> FALSE, payload |-> Payload(token)]

AuthExceptReraise == [ret |-> Raise, raised |-> TRUE]

\* except JWTError: print(...); return User(sub="anonymous")
AuthExcept == [ret |-> Anonymous, raised |-> FALSE]

\* get_authorized_user; config is app.state.auth_config: "unset" (no such
\* attribute), "none" or "set".
GetAuthorizedUser(config, header, jwt_available, jwks_up) ==
    IF config \in {"unset", "none"}
    THEN [ret |-> Anonymous, raised |-> FALSE]
    ELSE LET token == GetTokenFromHeader(header)
         IN IF ~Truthy(token) THEN [ret |-> Anonymous, raised |-> FALSE]
            ELSE IF ~jwt_available
            THEN [ret |-> Anonymous, raised |-> FALSE]
            ELSE LET v == ValidateToken(token.v, jwt_available, jwks_up)
                 IN IF v.raised THEN AuthExcept
                    ELSE [ret |-> User(PayloadGet(v.payload, "sub",
                                                  PyStr(AnonymousSub)),
                                       PayloadGet(v.payload, "user_id", None),
                                       PayloadGet(v.payload, "name",
                                                  PyStr(<<>>)),
                                       PayloadGet(v.payload, "email",
                                                  PyStr(<<>>)),
                                       PayloadGet(v.payload, "picture", None)),
                          raised |-> FALSE]

\* An endpoint with `user: User = Depends(get_authorized_user)`: it answers
\* its data whoever the user is; an exception of the dependency is a 500.
EndpointStatus(dep) == IF dep.raised THEN 500 ELSE 200

(***************************************************************************)
(* GET /health                                                             *)
(***************************************************************************)
\* db_status; db = <<DATABASE_AVAILABLE, engine configured, session works>>
DbStatus(db, except) ==
    IF db[1]
    THEN IF db[2]
         THEN IF db[3] THEN [status |-> <<"connected">>, raised |-> FALSE]
              ELSE except
         ELSE [status |-> <<"not_configured">>, raised |-> FALSE]
    ELSE [status |-> <<"not_available">>, raised |-> FALSE]

\* cache_status; fault: redis_client.ping() raises
CacheStatus(cache_available, client, fault, except) ==
    IF cache_available
    THEN IF client
         THEN IF fault THEN except
              ELSE [status |-> <<"connected">>, raised |-> FALSE]
         ELSE [status |-> <<"in_memory">>, raised |-> FALSE]
    ELSE [status |-> <<"not_available">>, raised |-> FALSE]

\* "redis" if CACHE_AVAILABLE and hasattr(cache, "redis_client") and
\* cache.redis_client else "in_memory"
CacheType(cache_available, client) ==
    IF cache_available /\ client THEN <<"redis">> ELSE <<"in_memory">>

HealthExceptReraise == [status |-> <<>>, raised |-> TRUE]

\* except Exception as e: status = f"error: {str(e)}"
HealthExcept == [status |-> <<"error: ", "e">>, raised |-> FALSE]

\* health_check: the response, or the exception that escapes it.
HealthCheck(db, cache_available, client, fault) ==
    LET d == DbStatus(db, HealthExcept)
        c == CacheStatus(cache_available, client, fault, HealthExcept)
    IN IF d.raised \/ c.raised
       THEN [http |-> 500, raised |-> TRUE, body |-> None]
       ELSE [http |-> 200, raised |-> FALSE,
             body |-> [status |-> <<"healthy">>,
                       database |-> d.status,
                       cache |-> c.status,
                       type |-> CacheType(cache_available, client)]]

(***************************************************************************)
(* State of the memoized calls.                                            *)
(***************************************************************************)
VARIABLES
    pc,        \* caller -> "idle" | "computing" (awaiting the computation)
    inflight,  \* caller -> the call it is computing
    runs,      \* how often the wrapped computation has run (its counter)
    memo_ttl,  \* the ttl the decorator was given
    scenario,  \* which inputs the environment draws from (fixed by Init)
    boot_probe \* history: what Cache() found when it was constructed

VARIABLES
    requests,       \* RateLimitMiddleware.requests: IP -> list of timestamps
    forwarded,      \* history: IP -> times of the rate-limited requests
                    \* that reached the handler
    sample_reports  \* the report module's list of reports

memo_vars == <<pc, inflight, runs, memo_ttl>>
fixed_vars == <<scenario, boot_probe>>
web_vars == <<requests, forwarded, sample_reports>>
vars == <<store_vars, memo_vars, fixed_vars, web_vars>>

(***************************************************************************)
(* Inputs.  Scenarios keep the state spaces small: "store" has one         *)
(* namespace and one key with every kind of value and ttl; "ns" has        *)
(* several namespaces and keys with few values; "memo" drives the store    *)
(* through the decorator; "boot" has every start-up environment and a      *)
(* value that cannot be serialized; "over" sets one key again and again;   *)
(* "keys" calls the decorated function with keyword arguments and request  *)
(* objects; "api" has the requests to the endpoints; "frame" has two keys  *)
(* under gets and sets; "race" has two overlapping callers of f(1);        *)
(* "null" wraps a computation that returns None; "funcs" has three         *)
(* decorated functions; "threads" runs the in-process branches statement   *)
(* by statement for two threads; "limit" has the rate limiter and          *)
(* "reports" the report list.                                              *)
(***************************************************************************)
Keys ==
    CASE scenario = "ns" -> { <<"k">>, <<"b", ":", "k">> }
      [] scenario \in {"frame", "threads"} -> { <<"k">>, <<"j">> }
      \* the key the wrapper derives for f(1)
      [] scenario = "race" -> { MD5(<<"f", ":", "1">>) }
      [] OTHER -> { <<"k">> }
EnvNamespaces ==
    IF scenario = "ns"
    THEN { PyStr(<<"a">>), PyStr(<<"a", ":", "b">>) }
    ELSE { None }
ClearNamespaces ==
    CASE scenario = "ns" ->
           { PyStr(<<>>), PyStr(<<"a">>), PyStr(<<"a", ":", "b">>),
             PyStr(<<"*">>) }
      [] scenario = "store" -> { None, PyStr(DefaultNamespace) }
      [] scenario = "threads" -> { PyStr(DefaultNamespace) }
      [] OTHER -> { None }
\* {(1,): "a"}: a dict json.dumps refuses, its key being a tuple.
TupleKeyed == PyDict(<<<<PyTuple(<<PyInt(1)>>), PyStr(<<"a">>)>>>>)
Values ==
    CASE scenario = "ns" -> { PyInt(1) }
      [] scenario = "boot" -> { PyInt(1), TupleKeyed }
      [] scenario = "over" ->
           { PyInt(1), PyInt(2), PyTuple(<<PyInt(1)>>) }
      [] scenario \in {"frame", "threads"} -> { PyInt(1) }
      [] scenario = "race" -> { PyInt(7) }
      [] OTHER ->
           { None, PyInt(1), PyStr(<<"a">>), PyList(<<PyInt(1)>>),
             PyTuple(<<PyInt(1)>>), PyDict(<<<<PyInt(1), PyStr(<<"a">>)>>>>) }
Ttls ==
    CASE scenario \in {"ns", "boot"} -> { None }
      [] scenario \in {"over", "frame", "race", "threads"} ->
           { None, PyInt(1) }
      [] OTHER -> { None, PyInt(0), PyInt(2) }
MemoTtls ==
    IF scenario \in {"keys", "race", "funcs"} THEN { PyInt(2) }
    ELSE { PyInt(0), PyInt(2) }
Callers == IF scenario \in {"race", "threads"} THEN { 1, 2 } ELSE { 1 }
\* Two request objects, as two HTTP requests hand them to an endpoint.
Request(n) == PyObject(n, TRUE)
Requests == { Request(1), Request(2) }
\* f(x=1, y=2) and f(y=2, x=1)
KwCalls ==
    { Call(<<>>, <<<<<<"x">>, PyInt(1)>>, <<<<"y">>, PyInt(2)>>>>),
      Call(<<>>, <<<<<<"y">>, PyInt(2)>>, <<<<"x">>, PyInt(1)>>>>) }
\* f(request, 1) and f(2, x=request)
RequestCalls ==
    { Call(<<r, PyInt(1)>>, <<>>) : r \in Requests }
    \cup { Call(<<PyInt(2)>>, <<<<<<"x">>, r>>>>) : r \in Requests }
\* A function object: the module that defines it and its __name__.
Func(module, name) == [module |-> module, name |-> name]
\* Three decorated functions: a.f and b.f bear the same name, a.g another.
Funcs == { Func(<<"a">>, <<"f">>), Func(<<"b">>, <<"f">>),
           Func(<<"a">>, <<"g">>) }
\* What each of them computes.
Returns(func) ==
    CASE func = Func(<<"a">>, <<"f">>) -> PyInt(1)
      [] func = Func(<<"b">>, <<"f">>) -> PyInt(2)
      [] OTHER -> PyInt(3)
\* F(1), for each decorated function F.
FuncCalls ==
    { [args |-> <<PyInt(1)>>, kwargs |-> <<>>, func |-> F] : F \in Funcs }
Calls ==
    IF scenario = "keys" THEN KwCalls \cup RequestCalls
    ELSE IF scenario = "funcs" THEN FuncCalls
    ELSE IF scenario = "race" THEN { Call(<<PyInt(1)>>, <<>>) }
    ELSE { Call(<<PyInt(1)>>, <<>>), Call(<<PyStr(<<"1">>)>>, <<>>),
           Call(<<PyInt(2)>>, <<>>) }
\* The decorated function: @cached(ttl=memo_ttl) async def f(...)
KeyPrefix == <<>>
FuncName == <<"f">>
\* func.__name__ of the function a call goes to: f, unless the call names
\* its function.
NameOf(c) == IF "func" \in DOMAIN c THEN c.func.name ELSE FuncName
\* Bytes another client left in the Redis database: not JSON.
Garbage == <<"{">>

\* ---- Rate limiting (app/middleware/security.py) ----

\* exclude_paths, as create_app passes them.
ExcludePaths ==
    { <<"/", "d", "o", "c", "s">>, <<"/", "r", "e", "d", "o", "c">>,
      <<"/", "o", "p", "e", "n", "a", "p", "i", ".", "j", "s", "o", "n">>,
      <<"/", "t", "e", "s", "t">>, <<"/", "m", "e", "t", "r", "i", "c", "s">>,
      <<"/", "h", "e", "a", "l", "t", "h">> }

\* any(request.url.path.startswith(path) for path in self.exclude_paths)
IsExcluded(path) == \E prefix \in ExcludePaths : StartsWith(path, prefix)

\* request.client.host if request.client else "unknown"
ClientIp(client) ==
    IF client = None THEN <<"unknown">> ELSE client.v

\* [ts for ts in self.requests[client_ip] if current_time - ts < window_size]
RecentKeepsAll(timestamps, current_time) == timestamps
Recent(timestamps, current_time) ==
    SelectSeq(timestamps, LAMBDA ts : current_time - ts < WindowSize)

\* The answer of the middleware itself.
RateLimitExceeded ==
    [status_code |-> 429, retry_after |-> DigitStr(WindowSize),
     called |-> FALSE]
\* call_next(request): the handler's answer.
CallNext == [status_code |-> 200, retry_after |-> None, called |-> TRUE]

\* RateLimitMiddleware.dispatch: the response, the timestamps afterwards,
\* and whether the request was counted.
Dispatch(reqs, client, path, current_time) ==
    IF IsExcluded(path)
    THEN [response |-> CallNext, requests |-> reqs, counted |-> FALSE]
    ELSE LET client_ip == ClientIp(client)
             known == client_ip \in DOMAIN reqs
             pruned == IF known
                       THEN With(reqs, client_ip,
                                 Recent(reqs[client_ip], current_time))
                       ELSE With(reqs, client_ip, <<>>)
         IN IF known /\ Len(pruned[client_ip]) >= RateLimit
            THEN [response |-> RateLimitExceeded, requests |-> pruned,
                  counted |-> FALSE]
            ELSE [response |-> CallNext,
                  requests |-> With(pruned, client_ip,
                                    Append(pruned[client_ip], current_time)),
                  counted |-> TRUE]

\* ---- Reports (app/apis/report) ----

\* f"{n:03d}"
Pad3(n) ==
    IF n < 10 THEN <<"0", "0">> \o DigitStr(n)
    ELSE IF n < 100 THEN <<"0">> \o DigitStr(n)
    ELSE DigitStr(n)
\* f"rep-{n:03d}"
ReportId(n) == <<"r", "e", "p", "-">> \o Pad3(n)

Report(id, name, starred) == [id |-> id, name |-> name, starred |-> starred]

\* The five reports the module starts with.
SampleReports ==
    << Report(ReportId(1), <<"s1">>, TRUE), Report(ReportId(2), <<"s2">>, TRUE),
       Report(ReportId(3), <<"s3">>, FALSE),
       Report(ReportId(4), <<"s4">>, FALSE),
       Report(ReportId(5), <<"s5">>, FALSE) >>

\* next((r for r in sample_reports if r.id == report_id), None): the
\* position of the first report of that id, 0 for None.
FindReport(reports, report_id) ==
    IF \E i \in 1..Len(reports) : reports[i].id = report_id
    THEN CHOOSE i \in 1..Len(reports) :
             /\ reports[i].id = report_id
             /\ \A j \in 1..(i - 1) : reports[j].id # report_id
    ELSE 0

\* create_report: id=f"rep-{len(sample_reports) + 1:03d}", starred False
NewReport(reports, name) == Report(ReportId(Len(reports) + 1), name, FALSE)

\* [r for r in sample_reports if r.id != report_id]
RemoveReport(reports, report_id) ==
    SelectSeq(reports, LAMBDA r : r.id # report_id)

\* What the constructor may find: every combination in the start-up
\* scenario, a reachable and an unreachable Redis server in the other cache
\* scenarios, and no Redis server where the cache is in-process or idle.
BootProbes ==
    IF scenario = "boot" THEN Probes
    ELSE IF scenario \in {"limit", "reports", "threads"}
         THEN { <<TRUE, TRUE, FALSE>> }
    ELSE { <<TRUE, TRUE, TRUE>>, <<TRUE, TRUE, FALSE>> }
\* Who connects: a host, and a request without client information.
Clients == { PyStr(<<"a">>), None }
\* The paths requested: /api, /test and, excluded with it, /testing.
Paths == { <<"/", "a", "p", "i">>, <<"/", "t", "e", "s", "t">>,
           <<"/", "t", "e", "s", "t", "i", "n", "g">> }
\* The names given to new reports.
ReportNames == { <<"n">> }
\* The ids asked for: those of the samples, of new reports, and one more.
ReportIds == { ReportId(n) : n \in 1..(MaxReports + 1) }
\* The ids whose star is toggled: the last sample's and the next one.
StarIds == { ReportId(5), ReportId(6) }

\* Authorization headers: none, empty, a lone word, another scheme, three
\* words, no separator, then the scheme in any case before one token.
MalformedHeaders ==
    { None, PyStr(<<>>), PyStr(<<"B", "e", "a", "r", "e", "r">>),
      PyStr(<<"B", "a", "s", "i", "c", " ", "t">>),
      PyStr(<<"B", "e", "a", "r", "e", "r", " ", "t", " ", "t">>),
      PyStr(<<"B", "e", "a", "r", "e", "r", "t">>) }
BearerHeaders ==
    { PyStr(<<"B", "e", "a", "r", "e", "r", " ", "t">>),
      PyStr(<<"b", "e", "a", "r", "e", "r", " ", "t">>),
      PyStr(<<"B", "E", "A", "R", "E", "R", " ", "n">>),
      PyStr(<<"B", "e", "a", "r", "e", "r", " ", " ", "t">>),
      PyStr(<<"B", "e", "a", "r", "e", "r", " ", "x">>),
      PyStr(<<"B", "e", "a", "r", "e", "r", " ", "e">>) }
\* The headers whose token the issuer signed and that has not expired.
ValidTokenHeaders ==
    { PyStr(<<"B", "e", "a", "r", "e", "r", " ", "t">>),
      PyStr(<<"b", "e", "a", "r", "e", "r", " ", "t">>),
      PyStr(<<"B", "E", "A", "R", "E", "R", " ", "n">>),
      PyStr(<<"B", "e", "a", "r", "e", "r", " ", " ", "t">>) }
Headers == MalformedHeaders \cup BearerHeaders
AuthConfigs == { "unset", "none", "set" }
\* db = <<DATABASE_AVAILABLE, engine configured, session works>>
DbStates == BOOLEAN \X BOOLEAN \X BOOLEAN

\* History is kept in the scenario whose properties read it.
History(scn, x) == IF scenario = scn THEN x ELSE None
\* Marks that a set replaced no earlier set.
Missing == [t |-> "missing"]

Faults == IF redis_client THEN BOOLEAN ELSE {FALSE}
Idle == [args |-> None]

(***************************************************************************)
(* Init: the state after `cache = Cache()`.                                *)
(***************************************************************************)
InitCache ==
    /\ boot_probe \in BootProbes
    /\ LET i == Initialize(FALSE, FALSE, boot_probe)
       IN /\ initialized = i.initialized
          /\ redis_client = i.redis_client
    /\ in_memory_cache = EmptyMap
    /\ env_namespace \in EnvNamespaces
    /\ now = 1
    /\ last = [op |-> "init"]
    /\ last_set = EmptyMap
    /\ pc = [p \in Callers |-> "idle"]
    /\ inflight = [p \in Callers |-> Idle]
    /\ runs = 0
    /\ requests = EmptyMap
    /\ forwarded = EmptyMap
    /\ sample_reports = SampleReports

\* The Redis database is empty, or holds what another client left there.
Init ==
    /\ scenario = "store"
    /\ InitCache
    /\ redis_db \in
         IF redis_client
         THEN { EmptyMap,
                With(EmptyMap, GenerateKey(env_namespace, <<"k">>),
                     [data |-> Garbage, exp |-> None]) }
         ELSE { EmptyMap }
    /\ memo_ttl = PyInt(0)

InitNs ==
    /\ scenario = "ns"
    /\ InitCache
    /\ redis_db = EmptyMap
    /\ memo_ttl = PyInt(0)

InitBoot ==
    /\ scenario = "boot"
    /\ InitCache
    /\ redis_db = EmptyMap
    /\ memo_ttl = PyInt(0)

InitOver ==
    /\ scenario = "over"
    /\ InitCache
    /\ redis_db = EmptyMap
    /\ memo_ttl = PyInt(0)

InitApi ==
    /\ scenario = "api"
    /\ InitCache
    /\ redis_db = EmptyMap
    /\ memo_ttl = PyInt(0)

InitFrame ==
    /\ scenario = "frame"
    /\ InitCache
    /\ redis_db = EmptyMap
    /\ memo_ttl = PyInt(0)

InitRace ==
    /\ scenario = "race"
    /\ InitCache
    /\ redis_db = EmptyMap
    /\ memo_ttl \in MemoTtls

InitNull ==
    /\ scenario = "null"
    /\ InitCache
    /\ redis_db = EmptyMap
    /\ memo_ttl \in MemoTtls

InitFuncs ==
    /\ scenario = "funcs"
    /\ InitCache
    /\ redis_db = EmptyMap
    /\ memo_ttl \in MemoTtls

InitLimit ==
    /\ scenario = "limit"
    /\ InitCache
    /\ redis_db = EmptyMap
    /\ memo_ttl = PyInt(0)

InitReports ==
    /\ scenario = "reports"
    /\ InitCache
    /\ redis_db = EmptyMap
    /\ memo_ttl = PyInt(0)

InitThreads ==
    /\ scenario = "threads"
    /\ InitCache
    /\ redis_db = EmptyMap
    /\ memo_ttl = PyInt(0)

InitKeys ==
    /\ scenario = "keys"
    /\ InitCache
    /\ redis_db = EmptyMap
    /\ memo_ttl \in MemoTtls

InitMemo ==
    /\ scenario = "memo"
    /\ InitCache
    /\ redis_db = EmptyMap
    /\ memo_ttl \in MemoTtls

\* `if not self.initialized: self.initialize()` at the head of each operation
EnsureInitialized(probe) ==
    LET i == Initialize(initialized, redis_client, probe)
    IN /\ initialized' = i.initialized
       /\ redis_client' = i.redis_client

Client(probe) == Initialize(initialized, redis_client, probe).redis_client

(***************************************************************************)
(* The store's operations, called directly.                                *)
(***************************************************************************)
Get(key, fault, probe) ==
    LET r == CacheGet(Client(probe), in_memory_cache, redis_db,
                      env_namespace, key, now, fault)
    IN /\ EnsureInitialized(probe)
       /\ in_memory_cache' = r.mem
       /\ last' = [op |-> "get", key |-> key, ret |-> r.ret,
                   raised |-> r.raised, fault |-> fault, at |-> now]
       /\ UNCHANGED <<redis_db, now, env_namespace, last_set, memo_vars,
                      fixed_vars, web_vars>>

Set(key, value, ttl, fault, probe) ==
    LET r == CacheSet(Client(probe), in_memory_cache, redis_db,
                      env_namespace, key, value, ttl, now, fault)
        ck == GenerateKey(env_namespace, key)
    IN /\ EnsureInitialized(probe)
       /\ in_memory_cache' = r.mem
       /\ redis_db' = r.db
       /\ last' = [op |-> "set", key |-> key, ret |-> r.ret,
                   raised |-> r.raised, fault |-> fault, at |-> now,
                   value |-> History("boot", value),
                   before |-> History("boot",
                                      Held(IF Client(probe) THEN redis_db
                                           ELSE in_memory_cache, ck))]
       /\ last_set' = IF r.applied
                      THEN With(last_set, ck,
                                [value |-> value, ttl |-> ttl, at |-> now,
                                 ns |-> env_namespace, by |-> None,
                                 over |-> History("over",
                                                  IF ck \in DOMAIN last_set
                                                  THEN last_set[ck].ttl
                                                  ELSE Missing)])
                      ELSE last_set
       /\ UNCHANGED <<now, env_namespace, memo_vars, fixed_vars, web_vars>>

Delete(key, fault, probe) ==
    LET r == CacheDelete(Client(probe), in_memory_cache, redis_db,
                         env_namespace, key, fault)
        ck == GenerateKey(env_namespace, key)
        store == IF Client(probe) THEN redis_db ELSE in_memory_cache
    IN /\ EnsureInitialized(probe)
       /\ in_memory_cache' = r.mem
       /\ redis_db' = r.db
       /\ last' = [op |-> "delete", key |-> key, ret |-> r.ret,
                   raised |-> r.raised, fault |-> fault, at |-> now,
                   held |-> ck \in DOMAIN store,
                   expired |-> (/\ ~Client(probe)
                                /\ ck \in DOMAIN in_memory_cache
                                /\ IsExpired(in_memory_cache[ck], now)),
                   second |-> (/\ last.op = "delete"
                               /\ last.key = key
                               /\ ~last.fault),
                   changed |-> (r.mem # in_memory_cache \/ r.db # redis_db)]
       /\ last_set' = IF fault THEN last_set ELSE Without(last_set, {ck})
       /\ UNCHANGED <<now, env_namespace, memo_vars, fixed_vars, web_vars>>

Clear(namespace, fault, probe) ==
    LET r == CacheClear(Client(probe), in_memory_cache, redis_db,
                        namespace, fault)
        gone == (DOMAIN in_memory_cache \ DOMAIN r.mem)
                \cup (DOMAIN redis_db \ DOMAIN r.db)
    IN /\ EnsureInitialized(probe)
       /\ in_memory_cache' = r.mem
       /\ redis_db' = r.db
       /\ last' = [op |-> "clear", namespace |-> namespace, ret |-> r.ret,
                   raised |-> r.raised, fault |-> fault, at |-> now,
                   gone |-> gone,
                   gone_ns |-> {last_set[ck].ns :
                                  ck \in gone \cap DOMAIN last_set}]
       /\ last_set' = Without(last_set, gone)
       /\ UNCHANGED <<now, env_namespace, memo_vars, fixed_vars, web_vars>>

\* A second passes; the Redis server expires its keys.
Tick ==
    /\ now < MaxTime
    /\ now' = now + 1
    /\ redis_db' = RedisPurge(redis_db, now + 1)
    /\ UNCHANGED <<initialized, redis_client, in_memory_cache, env_namespace,
                   last, last_set, memo_vars, fixed_vars, web_vars>>

\* The environment gives CACHE_NAMESPACE another value.
SetEnv(ns) ==
    /\ ns # env_namespace
    /\ env_namespace' = ns
    /\ last' = [op |-> "env"]
    /\ UNCHANGED <<initialized, redis_client, in_memory_cache, redis_db, now,
                   last_set, memo_vars, fixed_vars, web_vars>>

\* create_app calls cache.initialize() again, whatever the environment is
\* by then; an exception of the call would be caught and logged there.
StartUp(probe) ==
    /\ EnsureInitialized(probe)
    /\ last' = [op |-> "initialize", probe |-> probe, raised |-> FALSE,
                was |-> redis_client]
    /\ UNCHANGED <<in_memory_cache, redis_db, now, env_namespace, last_set,
                   memo_vars, fixed_vars, web_vars>>

\* A request to an endpoint that depends on get_authorized_user.
AuthRequest(config, header, jwt_available, jwks_up) ==
    LET r == GetAuthorizedUser(config, header, jwt_available, jwks_up)
    IN /\ last' = [op |-> "auth", config |-> config, header |-> header,
                   jwt_available |-> jwt_available, jwks_up |-> jwks_up,
                   ret |-> r.ret, raised |-> r.raised,
                   status |-> EndpointStatus(r)]
       /\ UNCHANGED <<initialized, redis_client, in_memory_cache, redis_db,
                      now, env_namespace, last_set, memo_vars, fixed_vars, web_vars>>

\* GET /health; without the cache module there is no client to ask.
Health(db, cache_available, fault) ==
    LET client == cache_available /\ redis_client
        r == HealthCheck(db, cache_available, client, fault)
    IN /\ last' = [op |-> "health", db |-> db,
                   cache_available |-> cache_available, client |-> client,
                   fault |-> fault, http |-> r.http, raised |-> r.raised,
                   body |-> r.body]
       /\ UNCHANGED <<initialized, redis_client, in_memory_cache, redis_db,
                      now, env_namespace, last_set, memo_vars, fixed_vars, web_vars>>

NoProbe == <<FALSE, FALSE, FALSE>>
LazyProbes == IF initialized THEN {NoProbe} ELSE Probes

GetStep == \E k \in Keys, f \in Faults, pr \in LazyProbes : Get(k, f, pr)
SetStep ==
    \E k \in Keys, v \in Values, ttl \in Ttls, f \in Faults, pr \in LazyProbes :
        Set(k, v, ttl, f, pr)
DeleteStep == \E k \in Keys, f \in Faults, pr \in LazyProbes : Delete(k, f, pr)
ClearStep ==
    \E ns \in ClearNamespaces, f \in Faults, pr \in LazyProbes : Clear(ns, f, pr)
SetEnvStep == \E ns \in EnvNamespaces : SetEnv(ns)
AuthRequestStep ==
    \E c \in AuthConfigs, h \in Headers, j \in BOOLEAN, u \in BOOLEAN :
        AuthRequest(c, h, j, u)
HealthStep ==
    \E db \in DbStates, a \in BOOLEAN, f \in Faults : Health(db, a, f)
StartUpStep == \E pr \in Probes : StartUp(pr)

(***************************************************************************)
(* The `cached` decorator: the wrapper of a call.  The wrapper runs        *)
(* without suspending from its start to `await func(...)`, and from the    *)
(* computation's completion to its return.                                 *)
(***************************************************************************)
IsHitInverted(cached_value) == cached_value = None

\* if cached_value is not None:
IsHit(cached_value) == cached_value # None

\* Every call in flight has now seen another call return.
Overlapped(p) ==
    [q \in Callers |->
        IF q # p /\ pc[q] = "computing"
        THEN [inflight[q] EXCEPT !.overlapped = TRUE]
        ELSE inflight[q]]

\* History: the call that returned last was a fault-free call with the
\* arguments c, and the result it stored or read is younger than the ttl.
RepeatsLast(c, fault) ==
    /\ last.op = "call"
    /\ last.args = c
    /\ ~last.get_fault /\ ~last.set_fault /\ ~fault
    /\ now - last.stored_at < memo_ttl.v

JoinsSameCall(p, c) ==
    \E q \in Callers : q # p /\ pc[q] = "computing" /\ inflight[q].args = c

\* Between the miss and `await func(...)` the wrapper consults nothing but
\* the cache: it keeps no record of the calls in flight, so a miss never
\* joins a computation another call has started.
JoinsInflight(p, c) == FALSE

\* From the key derivation to the lookup: a hit returns, a miss starts the
\* computation.
CallStart(p, c, fault, probe) ==
    LET key == MemoKey(KeyPrefix, NameOf(c), c)
        ck == GenerateKey(env_namespace, key)
        g == CacheGet(Client(probe), in_memory_cache, redis_db,
                      env_namespace, key, now, fault)
        stored == ck \in DOMAIN last_set
        repeat == RepeatsLast(c, fault)
    IN /\ pc[p] = "idle"
       /\ EnsureInitialized(probe)
       /\ in_memory_cache' = g.mem
       /\ IF g.raised \/ IsHit(g.ret) \/ JoinsInflight(p, c)
          THEN /\ last' = [op |-> "call", args |-> c, ret |-> g.ret,
                           raised |-> g.raised, hit |-> ~g.raised,
                           ran |-> FALSE, get_fault |-> fault,
                           set_fault |-> FALSE, runs |-> runs,
                           stored |-> stored,
                           stored_at |-> IF stored THEN last_set[ck].at
                                         ELSE now,
                           by |-> IF stored THEN last_set[ck].by ELSE None,
                           overlapped |-> FALSE,
                           repeat |-> repeat,
                           prev_ret |-> IF repeat THEN last.ret ELSE None,
                           prev_runs |-> IF repeat THEN last.runs ELSE 0]
               /\ inflight' = Overlapped(p)
               /\ pc' = pc
          ELSE /\ pc' = [pc EXCEPT ![p] = "computing"]
               /\ inflight' = [inflight EXCEPT ![p] =
                                 [args |-> c, get_fault |-> fault,
                                  repeat |-> repeat, overlapped |-> FALSE]]
               /\ last' = last
       /\ UNCHANGED <<redis_db, now, env_namespace, last_set, runs, memo_ttl,
                      fixed_vars, web_vars>>

\* What the wrapped computation returns on its n-th run: the run counter;
\* None every time when the computation is one whose result is null; and
\* the function's own result when the call names its function.
Result(c, n) ==
    IF scenario = "null" THEN None
    ELSE IF "func" \in DOMAIN c THEN Returns(c.func)
    ELSE PyInt(n)

\* result = await func(...): the computation increments its counter and
\* returns it; then cache.set(key, result, ttl); return result.
CallFinish(p, fault, probe) ==
    LET c == inflight[p]
        key == MemoKey(KeyPrefix, NameOf(c.args), c.args)
        result == Result(c.args, runs + 1)
        ck == GenerateKey(env_namespace, key)
        s == CacheSet(Client(probe), in_memory_cache, redis_db,
                      env_namespace, key, result, memo_ttl, now, fault)
        repeat == c.repeat /\ ~c.overlapped /\ ~fault /\ last.op = "call"
    IN /\ pc[p] = "computing"
       /\ runs < MaxRuns
       /\ runs' = runs + 1
       /\ EnsureInitialized(probe)
       /\ in_memory_cache' = s.mem
       /\ redis_db' = s.db
       /\ last_set' = IF s.applied
                      THEN With(last_set, ck,
                                [value |-> result, ttl |-> memo_ttl,
                                 at |-> now, ns |-> env_namespace,
                                 by |-> c.args])
                      ELSE last_set
       /\ last' = [op |-> "call", args |-> c.args,
                   ret |-> IF s.raised THEN Raise ELSE result,
                   raised |-> s.raised, hit |-> FALSE, ran |-> TRUE,
                   get_fault |-> c.get_fault, set_fault |-> fault,
                   runs |-> runs + 1, stored |-> s.applied,
                   stored_at |-> now,
                   by |-> c.args,
                   overlapped |-> c.overlapped,
                   repeat |-> repeat,
                   prev_ret |-> IF repeat THEN last.ret ELSE None,
                   prev_runs |-> IF repeat THEN last.runs ELSE 0]
       /\ pc' = [pc EXCEPT ![p] = "idle"]
       /\ inflight' = [Overlapped(p) EXCEPT ![p] = Idle]
       /\ UNCHANGED <<now, env_namespace, memo_ttl, fixed_vars, web_vars>>

ReachesSetAnyway(completed) == TRUE

\* An exception or a cancellation at `result = await func(...)` leaves the
\* wrapper there and then: cache.set on the next line is reached only when
\* the computation completed.
ReachesSet(completed) == completed

\* The computation raises or is cancelled; the wrapper lets it through.
CallAbort(p, fault, probe) ==
    LET c == inflight[p]
        key == MemoKey(KeyPrefix, NameOf(c.args), c.args)
        ck == GenerateKey(env_namespace, key)
        partial == PyInt(0)
        s == IF ReachesSet(FALSE)
             THEN CacheSet(Client(probe), in_memory_cache, redis_db,
                           env_namespace, key, partial, memo_ttl, now, fault)
             ELSE [ret |-> None, raised |-> FALSE, mem |-> in_memory_cache,
                   db |-> redis_db, applied |-> FALSE]
        repeat == c.repeat /\ ~c.overlapped /\ last.op = "call"
    IN /\ pc[p] = "computing"
       /\ runs < MaxRuns
       /\ runs' = runs + 1
       /\ EnsureInitialized(probe)
       /\ in_memory_cache' = s.mem
       /\ redis_db' = s.db
       /\ last_set' = IF s.applied
                      THEN With(last_set, ck,
                                [value |-> partial, ttl |-> memo_ttl,
                                 at |-> now, ns |-> env_namespace,
                                 by |-> c.args])
                      ELSE last_set
       /\ last' = [op |-> "call", args |-> c.args, ret |-> Raise,
                   raised |-> TRUE, hit |-> FALSE, ran |-> TRUE,
                   get_fault |-> c.get_fault, set_fault |-> FALSE,
                   runs |-> runs + 1, stored |-> s.applied,
                   stored_at |-> now,
                   by |-> c.args,
                   overlapped |-> c.overlapped,
                   repeat |-> repeat,
                   prev_ret |-> IF repeat THEN last.ret ELSE None,
                   prev_runs |-> IF repeat THEN last.runs ELSE 0]
       /\ pc' = [pc EXCEPT ![p] = "idle"]
       /\ inflight' = [Overlapped(p) EXCEPT ![p] = Idle]
       /\ UNCHANGED <<now, env_namespace, memo_ttl, fixed_vars, web_vars>>

CallStartStep ==
    \E p \in Callers, c \in Calls, f \in Faults, pr \in LazyProbes :
        CallStart(p, c, f, pr)
CallFinishStep ==
    \E p \in Callers, f \in Faults, pr \in LazyProbes : CallFinish(p, f, pr)
CallAbortStep ==
    \E p \in Callers, f \in Faults, pr \in LazyProbes : CallAbort(p, f, pr)

\* One namespace, one key, every kind of value and ttl, the clock running.
Next == GetStep \/ SetStep \/ DeleteStep \/ ClearStep \/ Tick
Spec == Init /\ [][Next]_vars

\* Several namespaces and keys.
NextNs == GetStep \/ SetStep \/ DeleteStep \/ ClearStep \/ SetEnvStep
SpecNs == InitNs /\ [][NextNs]_vars

\* Start-up: the constructor under every environment, create_app's second
\* initialize(), then the operations with their lazy checks.
NextBoot == StartUpStep \/ GetStep \/ SetStep \/ DeleteStep \/ ClearStep
SpecBoot == InitBoot /\ [][NextBoot]_vars

\* Memoized calls from two callers, the clock running, the store cleared
\* now and then.
NextMemo == CallStartStep \/ CallFinishStep \/ ClearStep \/ Tick
SpecMemo == InitMemo /\ [][NextMemo]_vars

\* One key set again and again with and without a ttl, the clock running.
NextOver == GetStep \/ SetStep \/ Tick
SpecOver == InitOver /\ [][NextOver]_vars

\* Requests to the endpoints: those behind get_authorized_user, and /health.
NextApi == AuthRequestStep \/ HealthStep
SpecApi == InitApi /\ [][NextApi]_vars

\* Two keys, set with and without a ttl and read, the clock running.
NextFrame == GetStep \/ SetStep \/ Tick
SpecFrame == InitFrame /\ [][NextFrame]_vars

\* Two callers of f(1) whose calls overlap, and direct sets and gets of the
\* key these calls derive, the clock running.
NextRace == CallStartStep \/ CallFinishStep \/ SetStep \/ GetStep \/ Tick
SpecRace == InitRace /\ [][NextRace]_vars

\* Memoized calls with keyword arguments in either order and with request
\* objects, computations that complete and computations that raise.
\* The wrapper around a computation that returns None, and the clock.
NextNull == CallStartStep \/ CallFinishStep \/ Tick
SpecNull == InitNull /\ [][NextNull]_vars

\* ---- The in-process branches, statement by statement, for callers
\* ---- that run in different threads ----

\* What a thread's step leaves alone.
ThreadFrame ==
    UNCHANGED <<initialized, redis_client, redis_db, now, env_namespace,
                runs, memo_ttl, fixed_vars, web_vars>>

\* The call of a thread returns: an exception inside the try block ends in
\* the except clause, which returns ret.
Return(p, rec) ==
    /\ pc' = [pc EXCEPT ![p] = "idle"]
    /\ inflight' = [inflight EXCEPT ![p] = Idle]
    /\ last' = rec

\* clear(namespace), in-process: prefix = f"{namespace}:" and
\* keys_to_delete = [k for k in self.in_memory_cache.keys() if ...]
ClearSnapshot(p, namespace) ==
    /\ pc[p] = "idle" /\ ~redis_client /\ Truthy(namespace)
    /\ pc' = [pc EXCEPT ![p] = "clear"]
    /\ inflight' = [inflight EXCEPT ![p] =
                      [args |-> None, namespace |-> namespace,
                       snapshot |-> KeysToDelete(in_memory_cache, namespace),
                       keys_to_delete |->
                           KeysToDelete(in_memory_cache, namespace)]]
    /\ UNCHANGED <<in_memory_cache, last, last_set>>
    /\ ThreadFrame

\* for k in keys_to_delete: del self.in_memory_cache[k]; then return True.
\* A key that is gone by now raises KeyError: except, return False. The
\* list is in insertion order, which the map of the model does not keep:
\* any of the remaining keys may be the next.
ClearDel(p) ==
    /\ pc[p] = "clear"
    /\ LET c == inflight[p]
           rec(ret) == [op |-> "clear", namespace |-> c.namespace,
                        ret |-> ret, raised |-> FALSE, fault |-> FALSE,
                        at |-> now, threaded |-> TRUE,
                        left |-> c.snapshot \cap DOMAIN in_memory_cache]
       IN IF c.keys_to_delete = {}
          THEN /\ in_memory_cache' = in_memory_cache
               /\ last_set' = last_set
               /\ Return(p, rec(PyTrue))
          ELSE \E k \in c.keys_to_delete :
                 IF k \in DOMAIN in_memory_cache
                 THEN /\ in_memory_cache' = Without(in_memory_cache, {k})
                      /\ last_set' = Without(last_set, {k})
                      /\ inflight' = [inflight EXCEPT
                                        ![p].keys_to_delete = @ \ {k}]
                      /\ UNCHANGED <<pc, last>>
                 ELSE /\ in_memory_cache' = in_memory_cache
                      /\ last_set' = last_set
                      /\ Return(p, rec(ClearExcept.ret))
    /\ ThreadFrame

\* delete(key), in-process: elif cache_key in self.in_memory_cache
DeleteCheck(p, key) ==
    LET ck == GenerateKey(env_namespace, key)
    IN /\ pc[p] = "idle" /\ ~redis_client
       /\ IF ck \in DOMAIN in_memory_cache
          THEN /\ pc' = [pc EXCEPT ![p] = "delete"]
               /\ inflight' = [inflight EXCEPT ![p] =
                                 [args |-> None, key |-> key]]
               /\ last' = last
          ELSE Return(p, [op |-> "delete", key |-> key, ret |-> PyFalse,
                          raised |-> FALSE, fault |-> FALSE, at |-> now,
                          threaded |-> TRUE])
       /\ UNCHANGED <<in_memory_cache, last_set>>
       /\ ThreadFrame

\* del self.in_memory_cache[cache_key]; return True
DeleteDel(p) ==
    /\ pc[p] = "delete"
    /\ LET key == inflight[p].key
           ck == GenerateKey(env_namespace, key)
           rec(ret) == [op |-> "delete", key |-> key, ret |-> ret,
                        raised |-> FALSE, fault |-> FALSE, at |-> now,
                        threaded |-> TRUE]
       IN IF ck \in DOMAIN in_memory_cache
          THEN /\ in_memory_cache' = Without(in_memory_cache, {ck})
               /\ last_set' = Without(last_set, {ck})
               /\ Return(p, rec(PyTrue))
          ELSE /\ in_memory_cache' = in_memory_cache
               /\ last_set' = last_set
               /\ Return(p, rec(DeleteExcept.ret))
    /\ ThreadFrame

\* get(key), in-process: if cache_key in self.in_memory_cache
GetCheck(p, key) ==
    LET ck == GenerateKey(env_namespace, key)
    IN /\ pc[p] = "idle" /\ ~redis_client
       /\ IF ck \in DOMAIN in_memory_cache
          THEN /\ pc' = [pc EXCEPT ![p] = "get"]
               /\ inflight' = [inflight EXCEPT ![p] =
                                 [args |-> None, key |-> key]]
               /\ last' = last
          ELSE Return(p, [op |-> "get", key |-> key, ret |-> None,
                          raised |-> FALSE, fault |-> FALSE, at |-> now,
                          threaded |-> TRUE, entry |-> None])
       /\ UNCHANGED <<in_memory_cache, last_set>>
       /\ ThreadFrame

\* cache_item = self.in_memory_cache[cache_key] and the lines after it: a
\* key that is gone by now raises KeyError, and get returns None.
GetRead(p) ==
    /\ pc[p] = "get"
    /\ LET key == inflight[p].key
           ck == GenerateKey(env_namespace, key)
           r == IF ck \in DOMAIN in_memory_cache
                THEN MemGet(in_memory_cache, ck, now)
                ELSE [ret |-> GetExcept.ret, raised |-> FALSE,
                      mem |-> in_memory_cache]
       IN /\ in_memory_cache' = r.mem
          /\ last_set' = last_set
          /\ Return(p, [op |-> "get", key |-> key, ret |-> r.ret,
                        raised |-> FALSE, fault |-> FALSE, at |-> now,
                        threaded |-> TRUE,
                        entry |-> Held(in_memory_cache, ck)])
    /\ ThreadFrame

ClearSnapshotStep ==
    \E p \in Callers, ns \in ClearNamespaces : ClearSnapshot(p, ns)
ClearDelStep == \E p \in Callers : ClearDel(p)
DeleteCheckStep == \E p \in Callers, key \in Keys : DeleteCheck(p, key)
DeleteDelStep == \E p \in Callers : DeleteDel(p)
GetCheckStep == \E p \in Callers, key \in Keys : GetCheck(p, key)
GetReadStep == \E p \in Callers : GetRead(p)

\* Two threads on the in-process backend; set is one dictionary store.
NextThreads ==
    \/ SetStep
    \/ GetCheckStep \/ GetReadStep
    \/ DeleteCheckStep \/ DeleteDelStep
    \/ ClearSnapshotStep \/ ClearDelStep
SpecThreads == InitThreads /\ [][NextThreads]_vars

\* One request through the rate limiter.
HttpRequest(client, path) ==
    LET d == Dispatch(requests, client, path, now)
        ip == ClientIp(client)
    IN /\ requests' = d.requests
       /\ forwarded' = IF d.counted
                       THEN With(forwarded, ip,
                                 Append((IF ip \in DOMAIN forwarded THEN forwarded[ip] ELSE <<>>), now))
                       ELSE forwarded
       /\ last' = [op |-> "request", ip |-> ip, excluded |-> IsExcluded(path),
                   at |-> now, response |-> d.response]
       /\ UNCHANGED <<initialized, redis_client, in_memory_cache, redis_db,
                      now, env_namespace, last_set, memo_vars, fixed_vars,
                      sample_reports>>

\* POST /reports/
CreateReport(name) ==
    /\ Len(sample_reports) < MaxReports
    /\ sample_reports' = Append(sample_reports,
                                NewReport(sample_reports, name))
    /\ last' = [op |-> "create_report", status |-> 200,
                id |-> NewReport(sample_reports, name).id]
    /\ UNCHANGED <<initialized, redis_client, in_memory_cache, redis_db,
                   now, env_namespace, last_set, memo_vars, fixed_vars,
                   requests, forwarded>>

\* DELETE /reports/{report_id}
DeleteReport(report_id) ==
    /\ IF FindReport(sample_reports, report_id) = 0
       THEN /\ sample_reports' = sample_reports
            /\ last' = [op |-> "delete_report", status |-> 404,
                        id |-> report_id]
       ELSE /\ sample_reports' = RemoveReport(sample_reports, report_id)
            /\ last' = [op |-> "delete_report", status |-> 204,
                        id |-> report_id]
    /\ UNCHANGED <<initialized, redis_client, in_memory_cache, redis_db,
                   now, env_namespace, last_set, memo_vars, fixed_vars,
                   requests, forwarded>>

\* PUT /reports/{report_id}/star
ToggleStarReport(report_id) ==
    LET i == FindReport(sample_reports, report_id)
    IN /\ IF i = 0
          THEN /\ sample_reports' = sample_reports
               /\ last' = [op |-> "toggle_star_report", status |-> 404,
                           id |-> report_id]
          ELSE /\ sample_reports' =
                    [sample_reports EXCEPT ![i].starred = ~@]
               /\ last' = [op |-> "toggle_star_report", status |-> 200,
                           id |-> report_id]
       /\ UNCHANGED <<initialized, redis_client, in_memory_cache, redis_db,
                      now, env_namespace, last_set, memo_vars, fixed_vars,
                      requests, forwarded>>

HttpRequestStep == \E c \in Clients, path \in Paths : HttpRequest(c, path)
CreateReportStep == \E name \in ReportNames : CreateReport(name)
DeleteReportStep == \E id \in ReportIds : DeleteReport(id)
ToggleStarReportStep == \E id \in StarIds : ToggleStarReport(id)

\* The rate limiter under requests of two clients, and the clock.
NextLimit == HttpRequestStep \/ Tick
SpecLimit == InitLimit /\ [][NextLimit]_vars

\* The report endpoints that read or change the list by id.
NextReports == CreateReportStep \/ DeleteReportStep \/ ToggleStarReportStep
SpecReports == InitReports /\ [][NextReports]_vars

\* The wrappers of three decorated functions, sharing the one cache.
NextFuncs == CallStartStep \/ CallFinishStep \/ Tick
SpecFuncs == InitFuncs /\ [][NextFuncs]_vars

NextKeys == CallStartStep \/ CallFinishStep \/ CallAbortStep
SpecKeys == InitKeys /\ [][NextKeys]_vars

(***************************************************************************)
(* Properties.                                                             *)
(***************************************************************************)
StoredKey(key) == GenerateKey(env_namespace, key)
\* What a fault-free get(key) issued in this state returns.
ImmediateGet(key) ==
    CacheGet(redis_client, in_memory_cache, redis_db, env_namespace, key,
             now, FALSE).ret
StoreOps == {"get", "set", "delete", "clear"}

\* C1 (as claimed): right after a fault-free set(k, v), the set has returned
\* True and get(k) returns a value equal to v, on either backend.
C1_RoundTrip ==
    (last.op = "set" /\ ~last.fault /\ last.at = now) =>
        /\ last.ret = PyTrue
        /\ ImmediateGet(last.key) = last_set[StoredKey(last.key)].value

C4_NamespaceIsolation ==
    (last.op = "get" /\ last.ret # None) =>
        last_set[StoredKey(last.key)].ns = env_namespace

\* C5: a fault-free delete(k) of a key that holds an entry returns True and
\* a get(k) then returns absent; of a key that holds no entry it returns
\* False and changes nothing; the second of two consecutive delete(k)
\* returns False; and get(k) returns absent for a key that was not set
\* since its last delete.
C5_Delete ==
    /\ (last.op = "delete" /\ ~last.fault) =>
          /\ last.held => (last.ret = PyTrue /\ ImmediateGet(last.key) = None)
          /\ ~last.held => (last.ret = PyFalse /\ ~last.changed)
    /\ (last.op = "delete" /\ last.second) => last.ret = PyFalse
    /\ (last.op = "get" /\ StoredKey(last.key) \notin DOMAIN last_set) =>
          last.ret = None

C5_Witness ==
    /\ last.op = "delete"
    /\ ~last.fault
    /\ last.held
    /\ last.ret = PyTrue
    /\ ImmediateGet(last.key) = None

\* C6 (as claimed): clear(namespace=X) removes no key that was set under
\* another namespace than X.
C6_ClearScoping ==
    (last.op = "clear" /\ ~last.fault /\ Truthy(last.namespace)) =>
        \A n \in last.gone_ns : Getenv(n, DefaultNamespace) = last.namespace.v

\* C7: a memoized call that repeats the call before it (same arguments, no
\* fault, no clear in between, inside the ttl window of the stored entry)
\* is a hit: it returns the same value, a counter value the computation
\* produced, and the computation has not run again.
C7_MemoIdempotence ==
    (last.op = "call" /\ last.repeat) =>
        /\ last.hit
        /\ ~last.ran
        /\ last.ret = last.prev_ret
        /\ last.ret \in {PyInt(n) : n \in 1..last.runs}
        /\ last.runs = last.prev_runs

C7_Witness ==
    /\ last.op = "call"
    /\ last.repeat
    /\ last.hit
    /\ last.ret = last.prev_ret
    /\ last.runs = 1

\* C8 (as claimed): a memoized call is never answered with the result that
\* was cached for a call with different arguments.
C8_ArgumentSensitivity ==
    (last.op = "call" /\ last.hit) => last.by = last.args

\* C9: no memoized call raises; a call during which the store failed (in
\* get or in set) ran the computation and returned its result; and a hit
\* happens only on an entry that a successful set wrote.
C9_FailureTolerance ==
    last.op = "call" =>
        /\ ~last.raised
        /\ (last.get_fault \/ last.set_fault) =>
              (last.ran /\ ~last.hit /\ last.ret = PyInt(last.runs))
        /\ last.hit => last.stored

C9_Witness ==
    /\ last.op = "call"
    /\ last.set_fault
    /\ ~last.raised
    /\ last.ran
    /\ last.ret = PyInt(last.runs)

\* The stored bytes under the key of the last call are not JSON.
ReadGarbage ==
    /\ redis_client
    /\ StoredKey(last.key) \in DOMAIN redis_db
    /\ redis_db[StoredKey(last.key)].data = Garbage

\* C10: no store operation raises; a get during which the backend failed,
\* or that read an undecodable value, returns absent; a set, delete or
\* clear during which the backend failed returns False.
C10_ErrorAbsorption ==
    /\ last.op \in StoreOps => ~last.raised
    /\ (last.op = "get" /\ (last.fault \/ ReadGarbage)) => last.ret = None
    /\ (last.op \in {"set", "delete", "clear"} /\ last.fault) =>
          last.ret = PyFalse

C10_Witness ==
    /\ last.op = "get"
    /\ ~last.fault
    /\ ReadGarbage
    /\ last.ret = None
    /\ ~last.raised


\* What `initialize` selects under a probe: the Redis client when the
\* library is there, REDIS_URL is set and from_url and ping succeed.
Selected(probe) == probe[1] /\ probe[2] /\ probe[3]

\* C11: after construction and after every operation the store is
\* initialized and uses exactly one backend, Redis if the constructor found
\* the library, the URL and a server answering the ping, else the in-process
\* map; the other backend holds nothing, and no initialization raises.
C11_AlwaysUsable ==
    /\ initialized
    /\ redis_client = Selected(boot_probe)
    /\ redis_client => in_memory_cache = EmptyMap
    /\ ~redis_client => redis_db = EmptyMap
    /\ last.op \in StoreOps \cup {"initialize"} => ~last.raised

\* C11 witness: the library and the URL were there but the ping failed; a
\* set has since been served from the in-process map.
C11_Witness ==
    /\ boot_probe = <<TRUE, TRUE, FALSE>>
    /\ last.op = "set" /\ last.ret = PyTrue
    /\ initialized /\ ~redis_client
    /\ in_memory_cache # EmptyMap

\* C12: no step changes the selected backend: not a repeated initialize()
\* under another environment, not a lazy check, not a failing Redis call.
C12_SelectedOnce == [][redis_client' = redis_client]_vars

\* C12 witness: create_app's initialize() ran under an environment that
\* would select the other backend (Redis reachable by now, or gone by now),
\* and the backend stayed.
C12_Witness ==
    /\ last.op = "initialize"
    /\ Selected(last.probe) # last.was
    /\ redis_client = last.was


\* The store key the wrapper derives for the call c.
KeyOf(c) == MemoKey(KeyPrefix, NameOf(c), c)

\* The same keyword arguments, in whatever order.
SameKwargs(c, d) ==
    /\ Len(c.kwargs) = Len(d.kwargs)
    /\ \A i \in 1..Len(c.kwargs) :
         \E j \in 1..Len(d.kwargs) : c.kwargs[i] = d.kwargs[j]

\* C13: two calls with equal positional arguments and equal keyword
\* arguments derive the same store key, whatever the order in which the
\* keyword arguments were written; a hit is always on an entry stored by a
\* call with the same arguments up to that order.
C13_KeyDeterminism ==
    /\ \A c, d \in Calls :
         (c.args = d.args /\ SameKwargs(c, d)) => KeyOf(c) = KeyOf(d)
    /\ (last.op = "call" /\ last.hit /\ last.args \in KwCalls) =>
         last.by \in KwCalls

\* C13 witness: f(y=2, x=1) was a hit on the entry f(x=1, y=2) stored.
C13_Witness ==
    /\ last.op = "call" /\ last.hit
    /\ last.args \in KwCalls /\ last.by \in KwCalls
    /\ last.by # last.args
    /\ last.ret = PyInt(1)

\* Two values that are equal, or are both request objects.
SameButRequest(x, y) == x = y \/ (HasDict(x) /\ HasDict(y) /\ IsRequest(x) /\ IsRequest(y))

\* Two calls that differ at most in the request objects passed.
OnlyRequestsDiffer(c, d) ==
    /\ Len(c.args) = Len(d.args)
    /\ \A i \in 1..Len(c.args) : SameButRequest(c.args[i], d.args[i])
    /\ Len(c.kwargs) = Len(d.kwargs)
    /\ \A i \in 1..Len(c.kwargs) :
         /\ c.kwargs[i][1] = d.kwargs[i][1]
         /\ SameButRequest(c.kwargs[i][2], d.kwargs[i][2])

\* C14 (as claimed): two calls that differ only in the request object,
\* passed positionally or by keyword, derive the same store key.
C14_RequestsExcluded ==
    \A c, d \in Calls : OnlyRequestsDiffer(c, d) => KeyOf(c) = KeyOf(d)

\* C18: a computation that raises or is cancelled leaves no entry under the
\* derived key, and the next call with the same arguments is a miss that
\* runs the computation again.
C18_StoreOnlyOnCompletion ==
    /\ (last.op = "call" /\ last.ran /\ last.raised /\ ~last.get_fault) =>
         /\ ~last.stored
         /\ ImmediateGet(KeyOf(last.args)) = None
    /\ (last.op = "call" /\ last.repeat /\ last.prev_ret = Raise) =>
         last.ran /\ ~last.hit

\* C18 witness: the first computation raised, the call was repeated, ran
\* the computation a second time and returned its result.
C18_Witness ==
    /\ last.op = "call" /\ last.repeat /\ last.prev_ret = Raise
    /\ last.ran /\ ~last.raised
    /\ last.ret = PyInt(2)


\* The store of the backend in use.
BackendStore == IF redis_client THEN redis_db ELSE in_memory_cache

\* C15 (as claimed): set(k, v) with a value that cannot be serialized
\* returns False and leaves whatever k held as it was, on either backend.
C15_SerializationFailure ==
    (last.op = "set" /\ ~KeysDumpable(last.value)) =>
        /\ last.ret = PyFalse
        /\ Held(BackendStore, StoredKey(last.key)) = last.before


\* C16 (as claimed): clear returns True whenever no backend call failed,
\* also when no key matched the namespace, and False only on a backend
\* error; clear() without a namespace leaves the store empty.
C16_ClearReturnsBool ==
    last.op = "clear" =>
        /\ ~last.fault => last.ret = PyTrue
        /\ last.fault => last.ret = PyFalse
        /\ (~last.fault /\ last.namespace = None) => BackendStore = EmptyMap


\* C17 (as claimed): after set(k, v1, ttl1) and then set(k, v2, ttl2), a
\* get(k) returns v2 for as long as ttl2 allows, for ever when ttl2 is
\* absent, and nothing once ttl2 has run out, whatever ttl1 was.
C17_Overwrite ==
    (/\ last.op = "get" /\ ~last.fault
     /\ StoredKey(last.key) \in DOMAIN last_set
     /\ last_set[StoredKey(last.key)].over # Missing) =>
        LET w == last_set[StoredKey(last.key)]
        IN /\ (~Truthy(w.ttl) \/ last.at - w.at < w.ttl.v) =>
                last.ret = w.value
           /\ (Truthy(w.ttl) /\ last.at - w.at > w.ttl.v) =>
                last.ret = None


\* C19: get_authorized_user never raises and the endpoint answers 200; the
\* user is the anonymous one when authentication is not configured, when
\* the header is missing or not "Bearer <token>", when JWT support is
\* missing and when the token does not validate; any other user is the one
\* a validated token names.
C19_AnonymousFallback ==
    last.op = "auth" =>
        /\ ~last.raised
        /\ last.status = 200
        /\ (\/ last.config # "set"
            \/ last.header \notin BearerHeaders
            \/ ~last.jwt_available
            \/ ~last.jwks_up
            \/ last.header \notin ValidTokenHeaders) => last.ret = Anonymous
        /\ last.ret.sub # PyStr(AnonymousSub) =>
             /\ last.config = "set" /\ last.jwt_available /\ last.jwks_up
             /\ last.header \in ValidTokenHeaders
             /\ last.ret.sub = PyStr(<<"u">>)

\* C19 witness: authentication is configured and JWT support is there, the
\* bearer token has a bad signature; the request was answered 200 for the
\* anonymous user.
C19_Witness ==
    /\ last.op = "auth"
    /\ last.config = "set" /\ last.jwt_available /\ last.jwks_up
    /\ last.header = PyStr(<<"B", "e", "a", "r", "e", "r", " ", "x">>)
    /\ last.ret = Anonymous /\ last.status = 200

\* C20: GET /health answers 200 with status "healthy" whatever the database
\* and the cache do; a failing session and a failing ping show as
\* "error: ..." in the body, and the cache type is "redis" exactly when a
\* Redis client is in use.
C20_HealthAlwaysHealthy ==
    last.op = "health" =>
        /\ ~last.raised
        /\ last.http = 200
        /\ last.body.status = <<"healthy">>
        /\ (last.db[1] /\ last.db[2] /\ ~last.db[3]) =>
             StartsWith(last.body.database, <<"error: ">>)
        /\ (last.client /\ last.fault) =>
             StartsWith(last.body.cache, <<"error: ">>)
        /\ last.body.type = (IF last.client THEN <<"redis">>
                             ELSE <<"in_memory">>)

\* C20 witness: the database session and the Redis ping both failed and
\* the answer was 200, healthy, with both errors in the body.
C20_Witness ==
    /\ last.op = "health"
    /\ last.db = <<TRUE, TRUE, FALSE>>
    /\ last.client /\ last.fault
    /\ last.http = 200
    /\ last.body.status = <<"healthy">>
    /\ last.body.type = <<"redis">>


\* C21 (as claimed): an entry set with ttl = 0 has expired once time has
\* advanced past the set: a get(k) then returns None.
C21_ZeroTtlExpires ==
    (/\ last.op = "get" /\ ~last.fault
     /\ StoredKey(last.key) \in DOMAIN last_set
     /\ last_set[StoredKey(last.key)].ttl = PyInt(0)
     /\ last.at > last_set[StoredKey(last.key)].at) =>
        last.ret = None

\* C22 (as claimed): on the in-process backend, delete(k) on an entry that
\* is past its expiry and not yet evicted returns False, as for a key that
\* was never set.
C22_DeleteExpired ==
    (last.op = "delete" /\ ~redis_client /\ last.expired) =>
        last.ret = PyFalse


\* The entry under ck is past its expiry time.
PastExpiry(ck) ==
    /\ ck \in DOMAIN in_memory_cache
    /\ in_memory_cache[ck].expires_at # None
    /\ in_memory_cache[ck].expires_at.v < now

\* C23: on the in-process backend a get(k) of an expired entry removes that
\* entry and no other and returns None; a get(k) of a live entry or of a
\* missing key leaves the map as it was; no get touches another key.
C23_GetFrame ==
    [][(last'.op = "get" /\ now' = now /\ ~redis_client) =>
         LET ck == StoredKey(last'.key)
         IN /\ PastExpiry(ck) =>
                 /\ in_memory_cache' = Without(in_memory_cache, {ck})
                 /\ last'.ret = None
            /\ ~PastExpiry(ck) => in_memory_cache' = in_memory_cache
            /\ \A other \in DOMAIN in_memory_cache \ {ck} :
                 /\ other \in DOMAIN in_memory_cache'
                 /\ in_memory_cache'[other] = in_memory_cache[other]]_vars

\* C23 witness: a get has evicted the expired entry of its key and returned
\* None, and the other key's entry is still in the map.
C23_Witness ==
    /\ ~redis_client
    /\ last.op = "get" /\ last.ret = None
    /\ StoredKey(last.key) \in DOMAIN last_set
    /\ Truthy(last_set[StoredKey(last.key)].ttl)
    /\ last.at - last_set[StoredKey(last.key)].at
         > last_set[StoredKey(last.key)].ttl.v
    /\ StoredKey(last.key) \notin DOMAIN in_memory_cache
    /\ in_memory_cache # EmptyMap


\* The in-process entry a set writes: its value, and its expiry when it was
\* given a ttl.
EntryOf(w) ==
    [value |-> w.value,
     expires_at |-> IF w.ttl # None /\ w.ttl # PyInt(0)
                    THEN PyInt(w.at + w.ttl.v) ELSE None]

C29_NoCoalescing ==
    [][/\ (/\ \E p \in Callers : pc[p] = "computing"
           /\ ImmediateGet(KeyOf(Call(<<PyInt(1)>>, <<>>))) = None
           /\ now' = now
           /\ last' # last /\ last'.op = "call") => last'.ran
       /\ \A p \in Callers :
            (pc[p] = "computing" /\ pc'[p] = "idle") =>
                /\ runs' = runs + 1
                /\ last'.op = "call" /\ last'.ran
                /\ (~last'.set_fault) =>
                     /\ StoredKey(KeyOf(last'.args)) \in DOMAIN last_set'
                     /\ last_set'[StoredKey(KeyOf(last'.args))].at = now
                     /\ last_set'[StoredKey(KeyOf(last'.args))].value
                          = PyInt(runs')]_vars

\* C29 witness: the second call started while the first was computing; both
\* have run the computation, two runs for two callers.
C29_Witness ==
    /\ last.op = "call" /\ last.ran /\ last.overlapped
    /\ runs = 2
    /\ \A p \in Callers : pc[p] = "idle"


\* C28: a computation whose result is None is run by every call: no call
\* of it is answered from the store, and a call that repeats the previous
\* call's arguments within the ttl, on either backend, has run the
\* computation once more and returns None.
C28_NullNeverServed ==
    last.op = "call" =>
        /\ last.ran /\ ~last.hit
        /\ last.ret = None
        /\ last.repeat => last.runs = last.prev_runs + 1

\* C28 witness: the same call twice within the ttl, the None of the first
\* run stored under its key; the second call ran the computation again.
C28_Witness ==
    /\ last.op = "call" /\ last.repeat /\ last.ran
    /\ last.ret = None
    /\ last.runs = 2
    /\ StoredKey(KeyOf(last.args)) \in DOMAIN BackendStore


\* C26 (as claimed): with the default key prefix, a call of one decorated
\* function is never answered from an entry that a call of another
\* decorated function stored.
C26_FunctionIdentity ==
    (last.op = "call" /\ last.hit /\ last.stored) =>
        /\ last.by.func = last.args.func
        /\ last.ret = Returns(last.args.func)


\* The rate-limited requests of ip that reached the handler less than
\* WindowSize seconds before t.
ForwardedWithin(ip, t) ==
    IF ip \in DOMAIN forwarded
    THEN Len(SelectSeq(forwarded[ip], LAMBDA ts : t - ts < WindowSize))
    ELSE 0

\* C27: the limiter never holds more than RateLimit timestamps for an IP;
\* a request to a path that is not excluded reaches the handler only if
\* fewer than RateLimit requests of its IP reached it within the window
\* before, and is otherwise answered 429 with Retry-After = window_size
\* without the handler being called and without being recorded: the
\* timestamps the limiter holds afterwards are those it held that are still
\* within the window.
C27_RateLimit ==
    [][/\ \A ip \in DOMAIN requests' : Len(requests'[ip]) <= RateLimit
       /\ (last' # last /\ last'.op = "request" /\ ~last'.excluded) =>
            LET ip == last'.ip
                before == ForwardedWithin(ip, now)
            IN IF before < RateLimit
               THEN /\ last'.response.called
                    /\ last'.response.status_code = 200
                    /\ forwarded'[ip] =
                         Append(IF ip \in DOMAIN forwarded
                                THEN forwarded[ip] ELSE <<>>, now)
               ELSE /\ ~last'.response.called
                    /\ last'.response.status_code = 429
                    /\ last'.response.retry_after = <<ToString(WindowSize)>>
                    /\ forwarded' = forwarded
                    /\ Len(requests'[ip]) = before
                    /\ \A i \in 1..Len(requests'[ip]) :
                           now - requests'[ip][i] < WindowSize]_vars

\* C27 witness: a client was answered 429 while the limiter held RateLimit
\* timestamps for it, after an earlier timestamp had left the window.
C27_Witness ==
    /\ last.op = "request" /\ ~last.excluded
    /\ last.response.status_code = 429
    /\ Len(requests[last.ip]) = RateLimit
    /\ Len(forwarded[last.ip]) > RateLimit

\* C30 (as claimed): the reports of the list have pairwise distinct ids.
C30_UniqueIds ==
    \A i, j \in 1..Len(sample_reports) :
        sample_reports[i].id = sample_reports[j].id => i = j


\* C25 (as claimed): with the callers in different threads on the
\* in-process backend, an entry of the map is always the whole entry one
\* set wrote, a get returns None or the value of such an entry, and a
\* namespaced clear returns True having left none of the keys it found.
C25_ThreadSafe ==
    /\ \A ck \in DOMAIN in_memory_cache :
           ck \in DOMAIN last_set =>
               in_memory_cache[ck] = EntryOf(last_set[ck])
    /\ (last.op = "get" /\ last.ret # None) =>
           /\ last.entry # None
           /\ last.ret = last.entry.value
    /\ last.op = "clear" => (last.ret = PyTrue /\ last.left = {})

====
